---- MODULE Spec2Model ----
(***************************************************************************)
(* Model of camera.py: a capture thread (capture_frames) hands frames to   *)
(* the main thread's display loop (show_camera) through frame_queue, and   *)
(* the two are stopped through stop_event.                                 *)
(*                                                                         *)
(* Granularity: one step per call on a shared object (Event.is_set,        *)
(* Event.set, Queue.empty, Queue.get_nowait, Queue.get, Queue.put,         *)
(* Thread.join, cap.read, cap.release).  Each of these calls is atomic     *)
(* (the queue and the event take their own lock), and the interpreter may  *)
(* switch threads between any two of them.                                 *)
(*                                                                         *)
(* cv2 calls whose failure the code never tests (namedWindow, imshow,      *)
(* release, destroyAllWindows) are modelled as returning normally.         *)
(***************************************************************************)
EXTENDS Integers, Sequences, FiniteSets, TLC

\* Number of frames the device delivers before every further read fails.
MaxFrames == 3

\* The calls made after the stop signal are counted up to this number.
MaxCount == 2

\* camera.py:8   frame_queue = Queue(maxsize=2)
QueueMaxSize == 2

\* camera.py:13  CAPTURE_FPS = 360
CAPTURE_FPS == 360

\* Frame rates the device may report for cap.get(CAP_PROP_FPS).
FpsValues == {60, 360}

\* Keys cv2.waitKey(1) & 0xFF may deliver: ord('q') or anything else (no key).
Keys == {"q", "other"}

VARIABLES
    main_pc,        \* position of the main thread (main / show_camera)
    capture_pc,     \* position of the capture thread (capture_frames)
    stop_event,     \* threading.Event: TRUE when set
    frame_queue,    \* queue.Queue contents, oldest first
    cap,            \* the VideoCapture object: "none", "created", "released"
    isOpened,       \* what cap.isOpened() answers
    actual_fps,     \* initialize_capture_device local: cap.get(CAP_PROP_FPS), 0 = not read
    window,         \* the OpenCV window: "none", "created", "destroyed"
    frames_read,    \* number of frames the device has delivered so far
    ret,            \* capture_frames local: ret of the last cap.read()
    frame,          \* capture_frames local: frame of the last cap.read(), 0 = None
    last_put,       \* the frame of the last completed frame_queue.put, 0 = none
    reads_after_stop, \* cap.read() calls made while stop_event was set (up to MaxCount)
    puts_after_stop,  \* frame_queue.put calls made while stop_event was set (up to MaxCount)
    shown_frame,    \* show_camera local: the frame returned by frame_queue.get()
    shown,          \* the frames passed to cv2.imshow, in order
    key,            \* show_camera local: result of the last waitKey
    exc,            \* the exception of main's try block: "none", "raised", "caught"
    stdout,         \* the kinds of message printed so far
    exit_status     \* <<>> while the process runs, <<n>> once it exited with n

vars == <<main_pc, capture_pc, stop_event, frame_queue, cap, isOpened,
          actual_fps, window, frames_read, ret, frame, last_put,
          reads_after_stop, puts_after_stop, shown_frame, shown, key, exc,
          stdout, exit_status>>

captureVars == <<capture_pc, frames_read, ret, frame, last_put,
                 reads_after_stop, puts_after_stop>>
displayVars == <<shown_frame, shown, key>>
deviceVars  == <<cap, isOpened, actual_fps, window>>
mainVars    == <<exc, stdout, exit_status>>

\* The capture thread has ended: capture_frames returned, or an uncaught
\* exception ended it (what Thread.join waits for).
Terminated == {"done", "crashed"}

Frames == 1..MaxFrames

Init ==
    /\ main_pc = "init"
    /\ capture_pc = "unstarted"
    /\ stop_event = FALSE
    /\ frame_queue = <<>>
    /\ cap = "none"
    /\ isOpened = FALSE
    /\ actual_fps = 0
    /\ window = "none"
    /\ frames_read = 0
    /\ ret = FALSE
    /\ frame = 0
    /\ last_put = 0
    /\ reads_after_stop = 0
    /\ puts_after_stop = 0
    /\ shown_frame = 0
    /\ shown = <<>>
    /\ key = "other"
    /\ exc = "none"
    /\ stdout = {}
    /\ exit_status = <<>>

(***************************************************************************)
(* main and initialize_capture_device                                      *)
(***************************************************************************)

\* Exit status of the interpreter when main() returns: 0 unless an exception
\* left main uncaught.
ExitStatus == IF exc = "raised" THEN 1 ELSE 0

initialize_capture_device_NoCheck ==
    /\ main_pc = "init"
    /\ \E opened \in BOOLEAN, fps \in FpsValues :
        /\ cap' = "created"
        /\ isOpened' = opened
        /\ exc' = exc
        /\ actual_fps' = fps
        /\ main_pc' = "start_thread"
        /\ stdout' = stdout \cup (IF fps < CAPTURE_FPS
                                  THEN {"warn_fps"} ELSE {}) \cup {"initialized"}
    /\ UNCHANGED <<stop_event, frame_queue, window, exit_status>>
    /\ UNCHANGED <<captureVars, displayVars>>

initialize_capture_device_FpsFatal ==
    /\ main_pc = "init"
    /\ \E opened \in BOOLEAN, fps \in FpsValues :
        /\ cap' = "created"
        /\ isOpened' = opened
        /\ IF ~opened \/ fps < CAPTURE_FPS
           THEN /\ exc' = "raised"
                /\ actual_fps' = IF opened THEN fps ELSE actual_fps
                /\ main_pc' = "except"
                /\ stdout' = stdout
           ELSE /\ exc' = exc
                /\ actual_fps' = fps
                /\ main_pc' = "start_thread"
                /\ stdout' = stdout \cup {"initialized"}
    /\ UNCHANGED <<stop_event, frame_queue, window, exit_status>>
    /\ UNCHANGED <<captureVars, displayVars>>

\* main, lines 99-103: cap = initialize_capture_device(device_index), then the
\* "initialized" print.  The device either opens or not; an unopened device
\* raises, and control goes to main's except clause.
initialize_capture_device ==
    /\ main_pc = "init"
    /\ \E opened \in BOOLEAN, fps \in FpsValues :
        /\ cap' = "created"
        /\ isOpened' = opened
        /\ IF ~opened
           THEN /\ exc' = "raised"
                /\ actual_fps' = actual_fps
                /\ main_pc' = "except"
                /\ stdout' = stdout
           ELSE /\ exc' = exc
                /\ actual_fps' = fps
                /\ main_pc' = "start_thread"
                /\ stdout' = stdout \cup (IF fps < CAPTURE_FPS
                                          THEN {"warn_fps"} ELSE {})
                                    \cup {"initialized"}
    /\ UNCHANGED <<stop_event, frame_queue, window, exit_status>>
    /\ UNCHANGED <<captureVars, displayVars>>

\* main, lines 107-108: except Exception as e: print(f"Error: {e}"); main
\* then returns and the interpreter exits.
main_except ==
    /\ main_pc = "except"
    /\ exc' = "caught"
    /\ stdout' = stdout \cup {"error"}
    /\ main_pc' = "done"
    /\ exit_status' = <<ExitStatus'>>
    /\ UNCHANGED <<stop_event, frame_queue, deviceVars>>
    /\ UNCHANGED <<captureVars, displayVars>>

(***************************************************************************)
(* show_camera (main thread)                                               *)
(***************************************************************************)

\* lines 72-73: capture_thread.start()
start_thread ==
    /\ main_pc = "start_thread"
    /\ capture_pc' = "c_loop"
    /\ main_pc' = "named_window"
    /\ UNCHANGED <<stop_event, frame_queue, deviceVars, mainVars, displayVars,
                   frames_read, ret, frame, last_put,
                   reads_after_stop, puts_after_stop>>

\* lines 76-77: namedWindow / setWindowProperty
named_window ==
    /\ main_pc = "named_window"
    /\ window' = "created"
    /\ main_pc' = "d_loop"
    /\ UNCHANGED <<stop_event, frame_queue, cap, isOpened, actual_fps, mainVars>>
    /\ UNCHANGED <<captureVars, displayVars>>

display_loop_Forever ==
    /\ main_pc = "d_loop"
    /\ main_pc' = "d_empty"
    /\ UNCHANGED <<stop_event, frame_queue, deviceVars, mainVars>>
    /\ UNCHANGED <<captureVars, displayVars>>

display_loop_Inverted ==
    /\ main_pc = "d_loop"
    /\ main_pc' = IF stop_event THEN "d_empty" ELSE "join"
    /\ UNCHANGED <<stop_event, frame_queue, deviceVars, mainVars>>
    /\ UNCHANGED <<captureVars, displayVars>>

\* line 79: while not stop_event.is_set()
display_loop ==
    /\ main_pc = "d_loop"
    /\ main_pc' = IF stop_event THEN "join" ELSE "d_empty"
    /\ UNCHANGED <<stop_event, frame_queue, deviceVars, mainVars>>
    /\ UNCHANGED <<captureVars, displayVars>>

\* line 81: if not frame_queue.empty()
display_empty ==
    /\ main_pc = "d_empty"
    /\ main_pc' = IF frame_queue /= <<>> THEN "d_get" ELSE "d_waitkey"
    /\ UNCHANGED <<stop_event, frame_queue, deviceVars, mainVars>>
    /\ UNCHANGED <<captureVars, displayVars>>

display_get_Peek ==
    /\ main_pc = "d_get"
    /\ frame_queue /= <<>>
    /\ shown_frame' = Head(frame_queue)
    /\ frame_queue' = frame_queue
    /\ main_pc' = "d_show"
    /\ UNCHANGED <<stop_event, deviceVars, mainVars, shown, key>>
    /\ UNCHANGED captureVars

\* line 82: frame = frame_queue.get()  -- blocks while the queue is empty
display_get ==
    /\ main_pc = "d_get"
    /\ frame_queue /= <<>>
    /\ shown_frame' = Head(frame_queue)
    /\ frame_queue' = Tail(frame_queue)
    /\ main_pc' = "d_show"
    /\ UNCHANGED <<stop_event, deviceVars, mainVars, shown, key>>
    /\ UNCHANGED captureVars

\* line 83: cv2.imshow("Video Capture", frame)
display_show ==
    /\ main_pc = "d_show"
    /\ shown' = Append(shown, shown_frame)
    /\ main_pc' = "d_waitkey"
    /\ UNCHANGED <<stop_event, frame_queue, deviceVars, mainVars,
                   shown_frame, key>>
    /\ UNCHANGED captureVars

\* line 86: key = cv2.waitKey(1) & 0xFF
display_waitkey ==
    /\ main_pc = "d_waitkey"
    /\ \E k \in Keys : key' = k
    /\ main_pc' = "d_key"
    /\ UNCHANGED <<stop_event, frame_queue, deviceVars, mainVars,
                   shown_frame, shown>>
    /\ UNCHANGED captureVars

\* lines 87-88: if key == ord('q'): stop_event.set()
display_key ==
    /\ main_pc = "d_key"
    /\ stop_event' = (stop_event \/ key = "q")
    /\ main_pc' = "d_loop"
    /\ UNCHANGED <<frame_queue, deviceVars, mainVars>>
    /\ UNCHANGED <<captureVars, displayVars>>

thread_join_NoWait ==
    /\ main_pc = "join"
    /\ main_pc' = "release"
    /\ UNCHANGED <<stop_event, frame_queue, deviceVars, mainVars>>
    /\ UNCHANGED <<captureVars, displayVars>>

\* line 91: capture_thread.join()  -- returns once the thread is not alive
thread_join ==
    /\ main_pc = "join"
    /\ capture_pc \in Terminated
    /\ main_pc' = "release"
    /\ UNCHANGED <<stop_event, frame_queue, deviceVars, mainVars>>
    /\ UNCHANGED <<captureVars, displayVars>>

\* line 92: cap.release()
cap_release ==
    /\ main_pc = "release"
    /\ cap' = "released"
    /\ main_pc' = "destroy"
    /\ UNCHANGED <<stop_event, frame_queue, isOpened, actual_fps, window, mainVars>>
    /\ UNCHANGED <<captureVars, displayVars>>

\* line 93: cv2.destroyAllWindows(); show_camera and main return, and the
\* interpreter exits.
destroy_windows ==
    /\ main_pc = "destroy"
    /\ window' = "destroyed"
    /\ main_pc' = "done"
    /\ exit_status' = <<ExitStatus>>
    /\ UNCHANGED <<stop_event, frame_queue, cap, isOpened, actual_fps, exc, stdout>>
    /\ UNCHANGED <<captureVars, displayVars>>

(***************************************************************************)
(* capture_frames (capture thread)                                         *)
(***************************************************************************)

capture_loop_Forever ==
    /\ capture_pc = "c_loop"
    /\ capture_pc' = "c_read"
    /\ UNCHANGED <<main_pc, stop_event, frame_queue, deviceVars, mainVars,
                   frames_read, ret, frame, last_put,
                   reads_after_stop, puts_after_stop>>
    /\ UNCHANGED displayVars

\* line 53: while not stop_event.is_set()
capture_loop ==
    /\ capture_pc = "c_loop"
    /\ capture_pc' = IF stop_event THEN "done" ELSE "c_read"
    /\ UNCHANGED <<main_pc, stop_event, frame_queue, deviceVars, mainVars,
                   frames_read, ret, frame, last_put,
                   reads_after_stop, puts_after_stop>>
    /\ UNCHANGED displayVars

capture_read_FailFatal ==
    /\ capture_pc = "c_read"
    /\ \E ok \in BOOLEAN :
        /\ ok => frames_read < MaxFrames
        /\ ret' = ok
        /\ reads_after_stop' = IF stop_event /\ reads_after_stop < MaxCount
                               THEN reads_after_stop + 1 ELSE reads_after_stop
        /\ IF ok
           THEN /\ frames_read' = frames_read + 1
                /\ frame' = frames_read + 1
                /\ capture_pc' = "c_empty"
                /\ stdout' = stdout
           ELSE /\ frames_read' = frames_read
                /\ frame' = 0
                /\ capture_pc' = "done"
                /\ stdout' = stdout \cup {"warn_read"}
    /\ UNCHANGED <<main_pc, stop_event, frame_queue, deviceVars, exc,
                   exit_status, last_put, puts_after_stop>>
    /\ UNCHANGED displayVars

\* lines 54-55 and 60-61: ret, frame = cap.read(); a failed read prints the
\* warning and goes to the sleep.
capture_read ==
    /\ capture_pc = "c_read"
    /\ \E ok \in BOOLEAN :
        /\ ok => frames_read < MaxFrames
        /\ ret' = ok
        /\ reads_after_stop' = IF stop_event /\ reads_after_stop < MaxCount
                               THEN reads_after_stop + 1 ELSE reads_after_stop
        /\ IF ok
           THEN /\ frames_read' = frames_read + 1
                /\ frame' = frames_read + 1
                /\ capture_pc' = "c_empty"
                /\ stdout' = stdout
           ELSE /\ frames_read' = frames_read
                /\ frame' = 0
                /\ capture_pc' = "c_sleep"
                /\ stdout' = stdout \cup {"warn_read"}
    /\ UNCHANGED <<main_pc, stop_event, frame_queue, deviceVars, exc,
                   exit_status, last_put, puts_after_stop>>
    /\ UNCHANGED displayVars

capture_empty_NoDrop ==
    /\ capture_pc = "c_empty"
    /\ capture_pc' = "c_put"
    /\ UNCHANGED <<main_pc, stop_event, frame_queue, deviceVars, mainVars,
                   frames_read, ret, frame, last_put,
                   reads_after_stop, puts_after_stop>>
    /\ UNCHANGED displayVars

\* line 57: if not frame_queue.empty()
capture_empty ==
    /\ capture_pc = "c_empty"
    /\ capture_pc' = IF frame_queue /= <<>> THEN "c_get_nowait" ELSE "c_put"
    /\ UNCHANGED <<main_pc, stop_event, frame_queue, deviceVars, mainVars,
                   frames_read, ret, frame, last_put,
                   reads_after_stop, puts_after_stop>>
    /\ UNCHANGED displayVars

capture_get_nowait_Keep ==
    /\ capture_pc = "c_get_nowait"
    /\ frame_queue' = frame_queue
    /\ capture_pc' = "c_put"
    /\ UNCHANGED <<main_pc, stop_event, deviceVars, mainVars,
                   frames_read, ret, frame, last_put,
                   reads_after_stop, puts_after_stop>>
    /\ UNCHANGED displayVars

capture_get_nowait_SkipPut ==
    /\ capture_pc = "c_get_nowait"
    /\ IF frame_queue = <<>>
       THEN /\ capture_pc' = "crashed"
            /\ frame_queue' = frame_queue
       ELSE /\ capture_pc' = "c_sleep"
            /\ frame_queue' = Tail(frame_queue)
    /\ UNCHANGED <<main_pc, stop_event, deviceVars, mainVars,
                   frames_read, ret, frame, last_put,
                   reads_after_stop, puts_after_stop>>
    /\ UNCHANGED displayVars

\* line 58: frame_queue.get_nowait()  -- raises queue.Empty on an empty queue;
\* nothing catches it, so the capture thread ends there.
capture_get_nowait ==
    /\ capture_pc = "c_get_nowait"
    /\ IF frame_queue = <<>>
       THEN /\ capture_pc' = "crashed"
            /\ frame_queue' = frame_queue
       ELSE /\ capture_pc' = "c_put"
            /\ frame_queue' = Tail(frame_queue)
    /\ UNCHANGED <<main_pc, stop_event, deviceVars, mainVars,
                   frames_read, ret, frame, last_put,
                   reads_after_stop, puts_after_stop>>
    /\ UNCHANGED displayVars

\* line 59: frame_queue.put(frame)  -- blocks while the queue is full
capture_put ==
    /\ capture_pc = "c_put"
    /\ Len(frame_queue) < QueueMaxSize
    /\ frame_queue' = Append(frame_queue, frame)
    /\ last_put' = frame
    /\ puts_after_stop' = IF stop_event /\ puts_after_stop < MaxCount
                          THEN puts_after_stop + 1 ELSE puts_after_stop
    /\ capture_pc' = "c_sleep"
    /\ UNCHANGED <<main_pc, stop_event, deviceVars, mainVars,
                   frames_read, ret, frame, reads_after_stop>>
    /\ UNCHANGED displayVars

capture_sleep_NoCheck ==
    /\ capture_pc = "c_sleep"
    /\ capture_pc' = "c_read"
    /\ UNCHANGED <<main_pc, stop_event, frame_queue, deviceVars, mainVars,
                   frames_read, ret, frame, last_put,
                   reads_after_stop, puts_after_stop>>
    /\ UNCHANGED displayVars

\* line 62: time.sleep(0.01)
capture_sleep ==
    /\ capture_pc = "c_sleep"
    /\ capture_pc' = "c_loop"
    /\ UNCHANGED <<main_pc, stop_event, frame_queue, deviceVars, mainVars,
                   frames_read, ret, frame, last_put,
                   reads_after_stop, puts_after_stop>>
    /\ UNCHANGED displayVars

(***************************************************************************)
(* The program                                                             *)
(***************************************************************************)

main ==
    \/ initialize_capture_device
    \/ main_except

show_camera ==
    \/ start_thread
    \/ named_window
    \/ display_loop
    \/ display_empty
    \/ display_get
    \/ display_show
    \/ display_waitkey
    \/ display_key
    \/ thread_join
    \/ cap_release
    \/ destroy_windows

capture_frames ==
    \/ capture_loop
    \/ capture_read
    \/ capture_empty
    \/ capture_get_nowait
    \/ capture_put
    \/ capture_sleep

Next == main \/ show_camera \/ capture_frames

Spec == Init /\ [][Next]_vars

\* Both threads are scheduled by the interpreter (the GIL is handed over at
\* every blocking call and at the switch interval), so a thread that can take
\* a step eventually takes one.
FairSpec ==
    /\ Spec
    /\ WF_vars(main \/ show_camera)
    /\ WF_vars(capture_frames)

TypeOK ==
    /\ main_pc \in {"init", "except", "start_thread", "named_window", "d_loop",
                    "d_empty", "d_get", "d_show", "d_waitkey", "d_key", "join",
                    "release", "destroy", "done"}
    /\ capture_pc \in {"unstarted", "c_loop", "c_read", "c_empty",
                       "c_get_nowait", "c_put", "c_sleep", "done", "crashed"}
    /\ stop_event \in BOOLEAN
    /\ frame_queue \in Seq(Frames) /\ Len(frame_queue) <= QueueMaxSize
    /\ cap \in {"none", "created", "released"}
    /\ isOpened \in BOOLEAN
    /\ actual_fps \in FpsValues \cup {0}
    /\ reads_after_stop \in 0..MaxCount
    /\ puts_after_stop \in 0..MaxCount
    /\ window \in {"none", "created", "destroyed"}
    /\ frames_read \in 0..MaxFrames
    /\ ret \in BOOLEAN
    /\ frame \in 0..MaxFrames
    /\ last_put \in 0..MaxFrames
    /\ shown_frame \in 0..MaxFrames
    /\ key \in Keys
    /\ exc \in {"none", "raised", "caught"}
    /\ stdout \subseteq {"warn_fps", "initialized", "warn_read", "error"}
    /\ Len(exit_status) <= 1

(***************************************************************************)
(* Properties                                                              *)
(***************************************************************************)

\* C1: the capture loop's put never blocks and always succeeds: the
\* get_nowait of line 58 never raises, the put of line 59 never finds the
\* queue full, and after a successful acquisition has gone through the
\* check-empty / get_nowait / put sequence its frame is the one last put.
C1_PutAlwaysSucceeds ==
    /\ capture_pc /= "crashed"
    /\ capture_pc = "c_put" => Len(frame_queue) < QueueMaxSize
    /\ (capture_pc = "c_sleep" /\ ret) => last_put = frame

\* C2: whenever the capture thread has terminated, the stop signal is set.
C2_EndsOnlyOnStop ==
    capture_pc \in Terminated => stop_event

\* C3: the frame channel holds at most one pending frame (although the queue
\* has room for QueueMaxSize), so the queue is never full when the capture
\* loop is about to put.
C3_AtMostOnePending ==
    /\ Len(frame_queue) <= 1
    /\ capture_pc = "c_put" => Len(frame_queue) < QueueMaxSize

\* C3 witness: frame 1 was put, never taken, and replaced by frame 2.
C3_Witness ==
    /\ frame_queue = <<2>>
    /\ shown_frame = 0
    /\ capture_pc = "c_sleep"

\* C4: whenever the channel is non-empty it holds exactly the frame most
\* recently put by the capture loop, and no earlier frame.
C4_HoldsLastPut ==
    frame_queue /= <<>> => frame_queue = <<last_put>>

\* C4 witness: MaxFrames puts with no take in between, the last one pending.
C4_Witness ==
    /\ last_put = MaxFrames
    /\ frame_queue = <<MaxFrames>>
    /\ shown_frame = 0
    /\ main_pc \in {"d_loop", "d_empty", "d_waitkey", "d_key"}

\* C5: the frames passed to imshow are in strictly increasing acquisition
\* order (never an older frame after a newer one, never the same frame twice).
C5_ShownIncreasing ==
    \A i, j \in 1..Len(shown) : i < j => shown[i] < shown[j]

\* C5 witness: two frames shown with a frame skipped in between.
C5_Witness ==
    /\ Len(shown) = 2
    /\ shown[2] > shown[1] + 1

\* C6: whenever the display loop executes the blocking frame_queue.get(),
\* the queue holds a frame.
C6_GetNeverBlocks ==
    main_pc = "d_get" => frame_queue /= <<>>

\* C7: the device is released only after the capture thread has terminated
\* and join has returned, the window is destroyed only after the device was
\* released, and the capture loop never reads from a released device.
C7_TeardownOrder ==
    /\ cap = "released" => (capture_pc \in Terminated
                            /\ main_pc \in {"destroy", "done"})
    /\ window = "destroyed" => (cap = "released" /\ main_pc = "done")
    /\ capture_pc = "c_read" => (cap = "created" /\ isOpened)

\* C7 witness: the teardown has run to its end after the capture loop returned.
C7_Witness ==
    /\ capture_pc = "done"
    /\ cap = "released"
    /\ window = "destroyed"
    /\ frames_read > 0

\* The session is closed with success status.
ClosedOk ==
    /\ stop_event
    /\ capture_pc \in Terminated
    /\ main_pc = "done"
    /\ cap = "released"
    /\ window = "destroyed"
    /\ exit_status = <<0>>

\* C8: once the display loop has read the quit key, the session eventually
\* is closed with success status (under FairSpec; every cap.read returns).
C8_QuitLeadsToClosed ==
    (main_pc = "d_key" /\ key = "q") ~> ClosedOk

\* C8 witness: a session closed after the quit key, the capture loop having
\* returned from its while loop.
C8_Witness ==
    /\ key = "q"
    /\ ClosedOk
    /\ capture_pc = "done"

\* C9: when the device fails to open, the capture thread and the display
\* loop are never started, no window is created, no frame is put in the
\* channel and the device is not released.
C9_OpenFailureStartsNothing ==
    (cap /= "none" /\ ~isOpened) =>
        /\ capture_pc = "unstarted"
        /\ main_pc \in {"except", "done"}
        /\ window = "none"
        /\ frame_queue = <<>> /\ last_put = 0 /\ shown = <<>>
        /\ cap = "created"

\* C9 witness: the run has ended after a failed open.
C9_Witness ==
    /\ cap = "created" /\ ~isOpened
    /\ main_pc = "done"

\* C10: a device-open failure ends the run with a reported error message and
\* a non-zero exit status.
C10_OpenFailureNonZeroExit ==
    (cap /= "none" /\ ~isOpened /\ main_pc = "done") =>
        /\ "error" \in stdout
        /\ exit_status /= <<0>>

\* C11: a failed cap.read() leaves the channel and the stop signal as they
\* were and sends the capture loop to its sleep; from the sleep the loop goes
\* back to its test, and from the test (stop not set) to the next read.
C11_ReadFailureNonFatal ==
    [][/\ (capture_pc = "c_read" /\ capture_pc' /= "c_read" /\ ~ret') =>
            /\ frame_queue' = frame_queue
            /\ stop_event' = stop_event
            /\ capture_pc' = "c_sleep"
       /\ (capture_pc = "c_sleep" /\ capture_pc' /= "c_sleep") =>
            capture_pc' = "c_loop"
       /\ (capture_pc = "c_loop" /\ capture_pc' /= "c_loop" /\ ~stop_event) =>
            capture_pc' = "c_read"]_vars

\* C11 witness: a read has failed before any frame was delivered, and the
\* loop is back at cap.read().
C11_Witness ==
    /\ capture_pc = "c_read"
    /\ ~ret /\ "warn_read" \in stdout
    /\ frames_read = 0
    /\ ~stop_event

\* C12: the stop signal, once set, is never cleared, and stop_event.set()
\* (line 88) is called at most once: never when the event is already set.
C12_StopMonotonic ==
    [][/\ stop_event => stop_event'
       /\ (main_pc = "d_key" /\ main_pc' /= "d_key" /\ key = "q") => ~stop_event]_vars

\* C12 witness: the session has ended with the stop signal set.
C12_Witness ==
    /\ stop_event
    /\ main_pc = "done"
    /\ capture_pc = "done"
    /\ frames_read = MaxFrames

\* The session-level state: 0 Uninitialized (no device open; a failed open
\* never leaves it), 1 DeviceOpen (device open, no loop started), 2 Running
\* (capture thread started, main thread in or entering the display loop),
\* 3 Stopping (main thread past the display loop: join, release, destroy),
\* 4 Closed (threads joined, device and window released).
SessionState ==
    CASE main_pc \in {"init", "except"} -> 0
      [] main_pc = "start_thread" -> 1
      [] main_pc \in {"named_window", "d_loop", "d_empty", "d_get", "d_show",
                      "d_waitkey", "d_key"} -> 2
      [] main_pc \in {"join", "release", "destroy"} -> 3
      [] main_pc = "done" -> IF cap = "released" THEN 4 ELSE 0

\* C13: the session state only stays or moves to the next state, Running is
\* left only with the stop signal set, and in Closed nothing changes any more.
C13_SessionStateMachine ==
    [][/\ SessionState' \in {SessionState, SessionState + 1}
       /\ (SessionState = 2 /\ SessionState' /= 2) => stop_event
       /\ SessionState = 4 => UNCHANGED vars]_vars

\* C13 witness: a session that went through all states and is Closed.
C13_Witness ==
    /\ SessionState = 4
    /\ window = "destroyed"
    /\ capture_pc \in Terminated
    /\ shown /= <<>>

\* The device opened and reported a frame rate below the requested one.
LowFps ==
    /\ cap /= "none" /\ isOpened
    /\ actual_fps < CAPTURE_FPS

\* C14: when the device opens with a lower actual frame rate, the warning is
\* printed, no error is raised or reported, and the session goes on to start
\* the capture thread and the display window.
C14_LowFpsIsWarning ==
    /\ [](LowFps => /\ "warn_fps" \in stdout
                    /\ exc = "none" /\ "error" \notin stdout
                    /\ main_pc \notin {"init", "except"})
    /\ (LowFps ~> (capture_pc /= "unstarted" /\ window /= "none"))

\* C14 witness: both loops are running on a device with a lower frame rate.
C14_Witness ==
    /\ LowFps
    /\ main_pc = "d_empty"
    /\ capture_pc = "c_read"

\* C15: whenever the display loop is blocked in frame_queue.get() the capture
\* thread is at its put and can take it; whenever it is blocked in join the
\* stop signal is set and the capture thread can take a step; and join
\* always returns.
C15_NoDeadlock ==
    /\ []((main_pc = "d_get" /\ frame_queue = <<>>) =>
            (capture_pc = "c_put" /\ ENABLED capture_put))
    /\ []((main_pc = "join" /\ capture_pc \notin Terminated) =>
            (stop_event /\ ENABLED capture_frames))
    /\ ((main_pc = "join") ~> (main_pc = "release"))

\* C15 witness: the display loop is blocked in frame_queue.get().
C15_Witness ==
    /\ main_pc = "d_get"
    /\ frame_queue = <<>>
    /\ ~stop_event

\* C16: once the stop signal is set the capture loop starts at most one
\* further cap.read() and puts at most one further frame.
C16_AtMostOneIterationAfterStop ==
    /\ reads_after_stop <= 1
    /\ puts_after_stop <= 1

\* C16 witness: the capture loop has exited after one read and one put that
\* followed the stop signal.
C16_Witness ==
    /\ stop_event
    /\ capture_pc = "done"
    /\ reads_after_stop = 1
    /\ puts_after_stop = 1

\* C17: while the stop signal is not set, every frame put in the channel is
\* followed by the display of that frame or a later one, and as long as the
\* device delivers frames (the session runs, no read has failed) frames keep
\* being shown.
C17_DisplayKeepsUp ==
    /\ \A f \in Frames :
        (last_put = f) ~> (stop_event \/ (shown /= <<>> /\ shown[Len(shown)] >= f))
    /\ (/\ <>(capture_pc /= "unstarted")
        /\ [](~stop_event /\ "warn_read" \notin stdout))
       => []<>(main_pc = "d_show")

====
